---- MODULE Spec2Model ----
(***************************************************************************)
(* A model of colorcal.py: the Streamlit script that estimates the CMYK    *)
(* ink coverage of an uploaded image (calculate_cmyk_coverage) and turns   *)
(* it into a print cost (calculate_print_cost).                            *)
(*                                                                         *)
(* Numbers.  The program computes in binary floating point.  The model     *)
(* computes the same expressions exactly:                                  *)
(*   - a Python float is the number mag * 1000^(-exp), or nan; mag is an   *)
(*     unbounded natural kept as its limbs in base 1000, least significant *)
(*     first, so that no product overflows;                                *)
(*   - the float32 per-pixel values of the estimator are exact fractions   *)
(*     <<num, den>>.                                                       *)
(* round(x, 2) is round-half-to-even on the exact value.  The predicate    *)
(* RoundingsAreClear states that no rounding of a reachable state is       *)
(* within 10^-9 of a tie, which is where binary and exact arithmetic       *)
(* could part.                                                             *)
(***************************************************************************)
EXTENDS Integers, Sequences, FiniteSets, TLC

VARIABLES
    printer_choice,   \* the selected printer (line 27)
    paper_cost,       \* line 31
    markup,           \* line 32: the slider's percentage / 100
    print_width_in,   \* line 34
    print_height_in,  \* line 35
    ink_prices,       \* lines 38-41: colour -> price
    uploaded_file,    \* line 47: None, or the file
    cmyk_coverage,    \* line 96: None, or colour -> "<percentage>%"
    cost_args,        \* the arguments of the last call of calculate_print_cost
    cost_locals,      \* its total_ink_cost, total_cost and final_price
    pricing,          \* line 103: the dictionary it returned
    screen,           \* what lines 87-108 have put on the page
    runs,             \* the runs of the script in this session
    pc                \* "done" after a run; "ready", "returned" around a lone call

vars == <<printer_choice, paper_cost, markup, print_width_in, print_height_in,
          ink_prices, uploaded_file, cmyk_coverage, cost_args, cost_locals,
          pricing, screen, runs, pc>>

(***************************************************************************)
(* Bounds of the model.                                                    *)
(***************************************************************************)
\* The changes of a widget (each followed by a run of the script) in a session.
MaxRuns == 3

(***************************************************************************)
(* Naturals of any size: limbs in base 1000, least significant first, no   *)
(* zero limb at the most significant end; <<>> is 0.                       *)
(***************************************************************************)
RECURSIVE NatStrip(_)
NatStrip(a) ==
    IF a = <<>> THEN <<>>
    ELSE IF a[Len(a)] = 0 THEN NatStrip(SubSeq(a, 1, Len(a) - 1))
    ELSE a

RECURSIVE NatFromInt(_)
NatFromInt(n) ==
    IF n = 0 THEN <<>> ELSE <<n % 1000>> \o NatFromInt(n \div 1000)

RECURSIVE NatToInt(_)
NatToInt(a) ==
    IF a = <<>> THEN 0 ELSE Head(a) + 1000 * NatToInt(Tail(a))

NatLimb(a, i) == IF i <= Len(a) THEN a[i] ELSE 0

RECURSIVE NatAddFrom(_, _, _, _)
NatAddFrom(a, b, i, carry) ==
    IF i > Len(a) /\ i > Len(b) THEN NatFromInt(carry)
    ELSE LET s == NatLimb(a, i) + NatLimb(b, i) + carry
         IN  <<s % 1000>> \o NatAddFrom(a, b, i + 1, s \div 1000)

NatAdd(a, b) == NatAddFrom(a, b, 1, 0)

\* a * k + carry, for integers k and carry up to 10^6
RECURSIVE NatMulInt(_, _, _)
NatMulInt(a, k, carry) ==
    IF a = <<>> THEN NatFromInt(carry)
    ELSE LET p == Head(a) * k + carry
         IN  <<p % 1000>> \o NatMulInt(Tail(a), k, p \div 1000)

\* a * 1000^n
NatShl(a, n) == IF a = <<>> THEN <<>> ELSE [i \in 1..n |-> 0] \o a

\* a * b by the limbs of b
RECURSIVE NatMulLong(_, _)
NatMulLong(a, b) ==
    IF b = <<>> THEN <<>>
    ELSE NatAdd(NatStrip(NatMulInt(a, Head(b), 0)),
                NatShl(NatMulLong(a, Tail(b)), 1))

\* a * b; one pass when a factor has at most two limbs
NatMul(a, b) ==
    IF a = <<>> \/ b = <<>> THEN <<>>
    ELSE IF Len(b) <= 2 THEN NatMulInt(a, NatToInt(b), 0)
    ELSE IF Len(a) <= 2 THEN NatMulInt(b, NatToInt(a), 0)
    ELSE NatMulLong(a, b)

\* a <= b, both stripped: compared from the most significant limb down
RECURSIVE NatLeqFrom(_, _, _)
NatLeqFrom(a, b, i) ==
    IF i = 0 THEN TRUE
    ELSE IF a[i] # b[i] THEN a[i] < b[i]
    ELSE NatLeqFrom(a, b, i - 1)

NatLeq(a, b) ==
    IF Len(a) # Len(b) THEN Len(a) < Len(b) ELSE NatLeqFrom(a, b, Len(a))

AllZero(a) == \A i \in 1..Len(a) : a[i] = 0

(***************************************************************************)
(* Python floats: the exact number mag * 1000^(-exp), or nan.  The record  *)
(* is canonical (the lowest limb is not 0 unless exp is 0, and zero has    *)
(* exp 0), so that two floats are equal exactly when their records are.    *)
(***************************************************************************)
NaN == [nan |-> TRUE, mag |-> <<>>, exp |-> 0]

RECURSIVE Canon(_, _)
Canon(mag, exp) ==
    LET m == NatStrip(mag)
    IN  IF m = <<>> THEN [nan |-> FALSE, mag |-> <<>>, exp |-> 0]
        ELSE IF exp > 0 /\ Head(m) = 0 THEN Canon(Tail(m), exp - 1)
        ELSE [nan |-> FALSE, mag |-> m, exp |-> exp]

\* mag * 1000^(-limbs) * 10^(-n)
ScaleDown(mag, limbs, n) ==
    Canon(NatMulInt(mag, 10 ^ ((3 - (n % 3)) % 3), 0), limbs + (n + 2) \div 3)

\* the float n * 10^(-e), as a literal of the source is written
Float(n, e) == ScaleDown(NatFromInt(n), 0, e)

Zero == Float(0, 0)

One == Float(1, 0)

\* x * y
FMul(x, y) ==
    IF x.nan \/ y.nan THEN NaN
    ELSE Canon(NatMul(x.mag, y.mag), x.exp + y.exp)

\* x + y
FAdd(x, y) ==
    IF x.nan \/ y.nan THEN NaN
    ELSE LET e == IF x.exp >= y.exp THEN x.exp ELSE y.exp
         IN  Canon(NatAdd(NatShl(x.mag, e - x.exp), NatShl(y.mag, e - y.exp)), e)

\* x / 10^n  (the source's "/ 100" and "/ 1000")
FDivPow10(x, n) == IF x.nan THEN NaN ELSE ScaleDown(x.mag, x.exp, n)

\* x <= y; any comparison with nan is False
FLeq(x, y) ==
    IF x.nan \/ y.nan THEN FALSE
    ELSE LET e == IF x.exp >= y.exp THEN x.exp ELSE y.exp
         IN  NatLeq(NatShl(x.mag, e - x.exp), NatShl(y.mag, e - y.exp))

\* x * 10^nd as limbs: the lowest x.exp limbs are what round(x, nd) drops
Shifted(x, nd) == NatMulInt(x.mag, 10 ^ nd, 0)

DroppedLimbs(x, nd) == [i \in 1..x.exp |-> NatLimb(Shifted(x, nd), i)]

KeptLimbs(x, nd) ==
    IF Len(Shifted(x, nd)) > x.exp
    THEN SubSeq(Shifted(x, nd), x.exp + 1, Len(Shifted(x, nd))) ELSE <<>>

\* Python's round(x, nd), nd in 0..3: to nd decimals, a tie to the even
\* neighbour.
FRound(x, nd) ==
    IF x.nan THEN NaN
    ELSE IF x.exp = 0 THEN x
    ELSE LET low  == DroppedLimbs(x, nd)
             high == KeptLimbs(x, nd)
             top  == low[x.exp]
             tie  == top = 500 /\ AllZero(SubSeq(low, 1, x.exp - 1))
             up   == \/ top > 500
                     \/ top = 500 /\ ~tie
                     \/ tie /\ NatLimb(high, 1) % 2 = 1
         IN  ScaleDown(IF up THEN NatAdd(high, <<1>>) ELSE high, 0, nd)

\* x is a number of at most nd decimals
HasDecimals(x, nd) == ~x.nan /\ FRound(x, nd) = x

\* round(x, nd) is decided within 10^-9 of a tie (in units of 10^-nd)
NearTie(x, nd) ==
    /\ ~x.nan
    /\ x.exp > 0
    /\ LET low == DroppedLimbs(x, nd)
           below(j) == IF x.exp - j >= 1 THEN low[x.exp - j] ELSE 0
       IN  \/ low[x.exp] = 500 /\ below(1) = 0 /\ below(2) = 0
           \/ low[x.exp] = 499 /\ below(1) = 999 /\ below(2) = 999

(***************************************************************************)
(* Exact fractions <<num, den>>, den > 0, for the estimator's float32      *)
(* arrays.                                                                 *)
(***************************************************************************)
RECURSIVE GCD(_, _)
GCD(a, b) == IF b = 0 THEN a ELSE GCD(b, a % b)

Frac(n, d) == LET g == GCD(n, d) IN <<n \div g, d \div g>>

FracAdd(p, q) == Frac(p[1] * q[2] + q[1] * p[2], p[2] * q[2])

RECURSIVE FracSum(_)
FracSum(s) == IF s = <<>> THEN <<0, 1>> ELSE FracAdd(Head(s), FracSum(Tail(s)))

\* the integer nearest to n / d, a tie to the even neighbour
RoundDiv(n, d) ==
    LET q == n \div d
        r == n % d
    IN  IF 2 * r > d \/ (2 * r = d /\ q % 2 = 1) THEN q + 1 ELSE q

(***************************************************************************)
(* Strings: sequences of one-character strings.                            *)
(***************************************************************************)
DigitChars == <<"0", "1", "2", "3", "4", "5", "6", "7", "8", "9">>

DigitChar(d) == DigitChars[d + 1]

DigitValues == [c \in {DigitChars[i] : i \in 1..10} |->
                   CHOOSE d \in 0..9 : DigitChars[d + 1] = c]

CharDigit(c) == DigitValues[c]

\* the three decimal digits of one limb
LimbChars(limb) ==
    <<DigitChar(limb \div 100), DigitChar((limb \div 10) % 10), DigitChar(limb % 10)>>

\* the digits of limbs a[from], a[from + 1], ..., a[to], most significant first
LimbsChars(a, from, to) ==
    [j \in 1..(3 * (to - from + 1)) |->
        LimbChars(NatLimb(a, to - (j - 1) \div 3))[((j - 1) % 3) + 1]]

\* the number of "0" at the start of s (leaving one character)
RECURSIVE LeadingZeros(_)
LeadingZeros(s) ==
    IF Len(s) <= 1 \/ Head(s) # "0" THEN 0 ELSE 1 + LeadingZeros(Tail(s))

\* the number of "0" at the end of s (leaving one character)
RECURSIVE TrailingZeros(_)
TrailingZeros(s) ==
    IF Len(s) <= 1 \/ s[Len(s)] # "0" THEN 0
    ELSE 1 + TrailingZeros(SubSeq(s, 1, Len(s) - 1))

\* str(x) of a float (also what an f-string renders): "33.33", "100.0", "nan"
FloatStr(x) ==
    IF x.nan THEN <<"n", "a", "n">>
    ELSE LET n    == IF Len(x.mag) > x.exp THEN Len(x.mag) ELSE x.exp + 1
             int  == LimbsChars(x.mag, x.exp + 1, n)
             frac == IF x.exp = 0 THEN <<"0">> ELSE LimbsChars(x.mag, 1, x.exp)
         IN  SubSeq(int, LeadingZeros(int) + 1, Len(int))
             \o <<".">>
             \o SubSeq(frac, 1, Len(frac) - TrailingZeros(frac))

\* s.strip('%'): every leading and trailing "%" removed
RECURSIVE StripPercent(_)
StripPercent(s) ==
    IF s = <<>> THEN s
    ELSE IF Head(s) = "%" THEN StripPercent(Tail(s))
    ELSE IF s[Len(s)] = "%" THEN StripPercent(SubSeq(s, 1, Len(s) - 1))
    ELSE s

\* the integer a run of at most 9 digit characters writes
RECURSIVE IntOfChars(_, _)
IntOfChars(s, n) ==
    IF n = 0 THEN 0 ELSE 10 * IntOfChars(s, n - 1) + CharDigit(s[n])

\* float(s) for the strings FloatStr writes: digits, ".", digits, or "nan"
ParseFloat(s) ==
    IF s = <<"n", "a", "n">> THEN NaN
    ELSE LET dot  == CHOOSE i \in 1..Len(s) : s[i] = "."
             int  == SubSeq(s, 1, dot - 1)
             frac == SubSeq(s, dot + 1, Len(s))
         IN  ScaleDown(NatFromInt(IntOfChars(int \o frac, Len(int) + Len(frac))), 0, Len(frac))

(***************************************************************************)
(* Configuration (lines 7-20).                                             *)
(***************************************************************************)
\* the ink channels, in the order of the dictionaries of the source
Colors == <<"Cyan", "Magenta", "Yellow", "Black (K)">>

ColorSet == {Colors[i] : i \in 1..Len(Colors)}

PrinterNames == {"Epson Workforce C5290", "Xerox VersaLink C405"}

PRINTERS ==
    [p \in PrinterNames |->
        IF p = "Epson Workforce C5290"
        THEN [INK_USAGE_PER_M2   |-> [c \in ColorSet |-> Float(5529, 2)],
              DEFAULT_INK_PRICES |-> [c \in ColorSet |-> Float(10, 1)]]
        ELSE [INK_USAGE_PER_M2   |-> [c \in ColorSet |-> Float(332, 3)],
              DEFAULT_INK_PRICES |-> [c \in ColorSet |-> Float(33175, 2)]]]

DEFAULT_PAPER_COST == Float(28, 1)

\* int(DEFAULT_MARKUP * 100), the slider's default
DEFAULT_MARKUP_PERCENT == 30

\* the slider's value / 100
MarkupOf(percent) == Float(percent, 2)

\* Python's None, and a value that is not None
None == [none |-> TRUE]

Some(v) == [none |-> FALSE, val |-> v]

(***************************************************************************)
(* calculate_cmyk_coverage (lines 49-70).  A decoded image is the          *)
(* sequence of its pixels, each <<blue, green, red>> in 0..255 as          *)
(* cv2.imread returns them.                                                *)
(***************************************************************************)
Max3(px) ==
    LET m == IF px[1] >= px[2] THEN px[1] ELSE px[2]
    IN  IF m >= px[3] THEN m ELSE px[3]

\* K = 1 - np.max(bgr, axis=2), of one pixel
KOf(px) == Frac(255 - Max3(px), 255)

\* (1 - bgr[..., i] - K) / (1 - K + 1e-10) of one pixel, i the 1-based place
\* of the colour in <<blue, green, red>>.  1 - bgr[i] - K is
\* (max - px[i]) / 255; 1 - K is max / 255, and the float32 sum absorbs 1e-10
\* unless max = 0, where the quotient is 0 / 1e-10.
InkOf(px, i) ==
    IF Max3(px) = 0 THEN Frac(0, 1)
    ELSE Frac(Max3(px) - px[i], Max3(px))

KArray(image) == [n \in 1..Len(image) |-> KOf(image[n])]

InkArray(image, i) == [n \in 1..Len(image) |-> InkOf(image[n], i)]

IsPositive(v) == v[1] > 0

\* channel[channel > 0]
Positive(channel) == SelectSeq(channel, IsPositive)

\* round(np.mean(a) * 100, 2); np.mean of an empty array is nan
MeanPercent(a) ==
    IF a = <<>> THEN NaN
    ELSE LET sum == FracSum(a)
         IN  Float(RoundDiv(sum[1] * 10000, sum[2] * Len(a)), 2)

ink_percentage(channel) == MeanPercent(Positive(channel))

\* f"{value}%", were it to keep one decimal only
PercentStr_OneDecimal(value) == FloatStr(FRound(value, 1)) \o <<"%">>

\* f"{value}%"
PercentStr(value) == FloatStr(value) \o <<"%">>

\* cv2.imread, were it to hand an array back for any file
imread_Any(file) == Some(file.pixels)

\* cv2.imread: None for a file that is no image
imread(file) == IF file.decodable THEN Some(file.pixels) ELSE None

calculate_cmyk_coverage(file) ==
    LET image == imread(file)
    IN  IF image.none THEN None
        ELSE Some([c \in ColorSet |->
                 IF c = "Cyan" THEN PercentStr(ink_percentage(InkArray(image.val, 3)))
                 ELSE IF c = "Magenta"
                      THEN PercentStr(ink_percentage(InkArray(image.val, 2)))
                 ELSE IF c = "Yellow"
                      THEN PercentStr(ink_percentage(InkArray(image.val, 1)))
                 ELSE PercentStr(MeanPercent(KArray(image.val)))])

(***************************************************************************)
(* calculate_print_cost (lines 72-85).  The globals it reads (ink_prices,  *)
(* paper_cost, markup) are its last three parameters here.                 *)
(***************************************************************************)
\* float(ink_coverage[color].strip('%'))
CoverageValue(text) == ParseFloat(StripPercent(text))

\* a term of the sum, were coverage from 50% on to cost nothing
ChannelInkCost_Capped(text, print_area, usage, price) ==
    IF FLeq(Float(50, 0), ParseFloat(StripPercent(text))) THEN Zero
    ELSE FMul(FMul(FMul(FDivPow10(ParseFloat(StripPercent(text)), 2), print_area),
                   usage), price)

\* one term of the sum of lines 74-77
ChannelInkCost(text, print_area, usage, price) ==
    FMul(FMul(FMul(FDivPow10(CoverageValue(text), 2), print_area), usage), price)

\* sum(... for color in ink_prices), from the first n colours
RECURSIVE InkCostSum(_, _, _, _, _)
InkCostSum(n, ink_coverage, print_area, ink_usage_per_m2, prices) ==
    IF n = 0 THEN Zero
    ELSE FAdd(InkCostSum(n - 1, ink_coverage, print_area, ink_usage_per_m2, prices),
              ChannelInkCost(ink_coverage[Colors[n]], print_area,
                             ink_usage_per_m2[Colors[n]], prices[Colors[n]]))

\* the print area, were the height left in millimetres
PrintArea_HeightInMm(print_width, print_height) ==
    FMul(FDivPow10(print_width, 3), print_height)

\* line 73
PrintArea(print_width, print_height) ==
    FMul(FDivPow10(print_width, 3), FDivPow10(print_height, 3))

TotalInkCost(print_width, print_height, ink_coverage, ink_usage_per_m2, prices) ==
    InkCostSum(Len(Colors), ink_coverage, PrintArea(print_width, print_height),
               ink_usage_per_m2, prices)

TotalCost(total_ink_cost, paper) == FAdd(total_ink_cost, paper)

\* the final price, were it the markup alone
FinalPrice_MarkupOnly(total_cost, mk) == FMul(total_cost, mk)

\* line 79
FinalPrice(total_cost, mk) == FMul(total_cost, FAdd(One, mk))

\* the currency sign of the f-strings of lines 81-84 (the peso sign)
CurrencySign == "P"

\* f"P{round(amount, 2)}"
RoundedAmountStr(amount) == <<CurrencySign>> \o FloatStr(FRound(amount, 2))

\* f"P{paper_cost}"
PaperCostStr(paper) == <<CurrencySign>> \o FloatStr(paper)

\* the local variables of a call, and the dictionary it returns
calculate_print_cost(print_width, print_height, ink_coverage, ink_usage_per_m2,
                     prices, paper, mk) ==
    LET total_ink_cost == TotalInkCost(print_width, print_height, ink_coverage,
                                       ink_usage_per_m2, prices)
        total_cost     == TotalCost(total_ink_cost, paper)
        final_price    == FinalPrice(total_cost, mk)
    IN  [locals |-> [total_ink_cost |-> total_ink_cost,
                     total_cost     |-> total_cost,
                     final_price    |-> final_price],
         result |-> [InkCost    |-> RoundedAmountStr(total_ink_cost),
                     PaperCost  |-> PaperCostStr(paper),
                     TotalCost  |-> RoundedAmountStr(total_cost),
                     FinalPrice |-> RoundedAmountStr(final_price)]]

(***************************************************************************)
(* The script (lines 22-47 and 87-108).  Streamlit runs it from the top    *)
(* on every change of a widget; a run is one step.  screen is what lines   *)
(* 87-108 have put on the page, in order.                                  *)
(***************************************************************************)
\* inches to millimetres (lines 44-45)
InchesToMm(inches) == FMul(inches, Float(254, 1))

\* "if cmyk_coverage:" - None and the empty dictionary are false
Truthy(d) == ~d.none /\ DOMAIN d.val # {}

ImageShown == [kind |-> "image", item |-> "Uploaded Image", text |-> <<>>]

Subheader(title) == [kind |-> "subheader", item |-> title, text |-> <<>>]

Written(item, text) == [kind |-> "write", item |-> item, text |-> text]

ErrorShown ==
    [kind |-> "error",
     item |-> "Error processing the image. Please try another file.",
     text |-> <<>>]

\* lines 98-100
CoverageLines(coverage) ==
    <<Subheader("CMYK Ink Coverage")>>
    \o [i \in 1..Len(Colors) |-> Written(Colors[i], coverage[Colors[i]])]

\* lines 104-106
CostLines(result) ==
    <<Subheader("Cost Calculation"),
      Written("Ink Cost", result.InkCost),
      Written("Paper Cost", result.PaperCost),
      Written("Total Cost", result.TotalCost),
      Written("Final Price (with Markup)", result.FinalPrice)>>

\* the arguments of the call of line 103
CostArgs(printer, width_in, height_in, coverage) ==
    [print_width      |-> InchesToMm(width_in),
     print_height     |-> InchesToMm(height_in),
     ink_coverage     |-> coverage,
     ink_usage_per_m2 |-> PRINTERS[printer].INK_USAGE_PER_M2]

CallPrintCost(args, prices, paper, mk) ==
    calculate_print_cost(args.print_width, args.print_height, args.ink_coverage,
                         args.ink_usage_per_m2, prices, paper, mk)

\* One run of the script with the widgets at the given values.
Run(printer, paper, mk, width_in, height_in, prices, file) ==
    /\ printer_choice' = printer
    /\ paper_cost' = paper
    /\ markup' = mk
    /\ print_width_in' = width_in
    /\ print_height_in' = height_in
    /\ ink_prices' = prices
    /\ uploaded_file' = file
    /\ runs < MaxRuns
    /\ runs' = runs + 1
    /\ pc' = "done"
    /\ IF file.none
       THEN /\ cmyk_coverage' = None
            /\ cost_args' = None
            /\ cost_locals' = None
            /\ pricing' = None
            /\ screen' = <<>>
       ELSE LET coverage == calculate_cmyk_coverage(file.val)
            IN  /\ cmyk_coverage' = coverage
                /\ IF Truthy(coverage)
                   THEN LET args == CostArgs(printer, width_in, height_in, coverage.val)
                            cost == CallPrintCost(args, prices, paper, mk)
                        IN  /\ cost_args' = Some(args)
                            /\ cost_locals' = Some(cost.locals)
                            /\ pricing' = Some(cost.result)
                            /\ screen' = <<ImageShown>>
                                         \o CoverageLines(coverage.val)
                                         \o CostLines(cost.result)
                   ELSE /\ cost_args' = None
                        /\ cost_locals' = None
                        /\ pricing' = None
                        /\ screen' = <<ImageShown, ErrorShown>>

(***************************************************************************)
(* The operator's inputs.                                                  *)
(***************************************************************************)
PaperCostInputs == {DEFAULT_PAPER_COST, Float(2807, 3)}

MarkupInputs == {DEFAULT_MARKUP_PERCENT, 0}

WidthInputs == {Float(827, 2), Float(4, 0)}

HeightInputs == {Float(1169, 2), Float(6, 0)}

InkPriceInputs == {Float(33175, 2)}

\* pixels <<blue, green, red>>
White == <<255, 255, 255>>

Black == <<0, 0, 0>>

PureCyan == <<255, 255, 0>>

Grey == <<170, 170, 170>>

Orange == <<85, 170, 255>>

Plum == <<170, 85, 85>>

\* the decoded images the operator uploads, each the sequence of its pixels
SampleImages ==
    {<<White>>, <<Black>>, <<PureCyan>>, <<White, PureCyan>>,
     <<Orange, Plum>>, <<Grey, Black, Orange>>}

\* a file that cv2.imread cannot decode
BadFile == [decodable |-> FALSE, pixels |-> <<>>]

ImageFile(pixels) == [decodable |-> TRUE, pixels |-> pixels]

Uploads == {BadFile} \cup {ImageFile(px) : px \in SampleImages}

(***************************************************************************)
(* Spec: the whole program.  Each action is one change of a widget and     *)
(* the run of the script that follows it.                                  *)
(***************************************************************************)
Init ==
    /\ printer_choice = "Epson Workforce C5290"
    /\ paper_cost = DEFAULT_PAPER_COST
    /\ markup = MarkupOf(DEFAULT_MARKUP_PERCENT)
    /\ print_width_in = Float(827, 2)
    /\ print_height_in = Float(1169, 2)
    /\ ink_prices = PRINTERS["Epson Workforce C5290"].DEFAULT_INK_PRICES
    /\ uploaded_file = None
    /\ cmyk_coverage = None
    /\ cost_args = None
    /\ cost_locals = None
    /\ pricing = None
    /\ screen = <<>>
    /\ runs = 0
    /\ pc = "done"

\* the price inputs take the new printer's defaults as their values
SelectPrinter ==
    \E p \in PrinterNames :
        Run(p, paper_cost, markup, print_width_in, print_height_in,
            PRINTERS[p].DEFAULT_INK_PRICES, uploaded_file)

SetPaperCost ==
    \E v \in PaperCostInputs :
        Run(printer_choice, v, markup, print_width_in, print_height_in,
            ink_prices, uploaded_file)

SetMarkup ==
    \E percent \in MarkupInputs :
        Run(printer_choice, paper_cost, MarkupOf(percent), print_width_in,
            print_height_in, ink_prices, uploaded_file)

SetPrintWidth ==
    \E v \in WidthInputs :
        Run(printer_choice, paper_cost, markup, v, print_height_in,
            ink_prices, uploaded_file)

SetPrintHeight ==
    \E v \in HeightInputs :
        Run(printer_choice, paper_cost, markup, print_width_in, v,
            ink_prices, uploaded_file)

SetInkPrice ==
    \E c \in ColorSet, v \in InkPriceInputs :
        Run(printer_choice, paper_cost, markup, print_width_in, print_height_in,
            [ink_prices EXCEPT ![c] = v], uploaded_file)

Upload ==
    \E f \in Uploads :
        Run(printer_choice, paper_cost, markup, print_width_in, print_height_in,
            ink_prices, Some(f))

RemoveFile ==
    /\ ~uploaded_file.none
    /\ Run(printer_choice, paper_cost, markup, print_width_in, print_height_in,
           ink_prices, None)

Next ==
    \/ SelectPrinter
    \/ SetPaperCost
    \/ SetMarkup
    \/ SetPrintWidth
    \/ SetPrintHeight
    \/ SetInkPrice
    \/ Upload
    \/ RemoveFile

Spec == Init /\ [][Next]_vars

(***************************************************************************)
(* SpecCost: calculate_print_cost alone, called once on arguments and      *)
(* globals drawn from the sets below.                                      *)
(***************************************************************************)
\* the percentages a coverage dictionary holds for a colour: the estimator
\* gives nan for Cyan, Magenta and Yellow (no positive pixel), never for K
CoverageLevels(c) ==
    IF c = "Black (K)" THEN {Float(0, 0), Float(10, 0), Float(1667, 2)}
    ELSE {NaN, Float(10, 0), Float(5833, 2)}

CoverageTables ==
    {[c \in ColorSet |-> PercentStr(t[c])] :
        t \in [ColorSet -> UNION {CoverageLevels(c) : c \in ColorSet}] \cap
              {u \in [ColorSet -> UNION {CoverageLevels(c) : c \in ColorSet}] :
                  \A c \in ColorSet : u[c] \in CoverageLevels(c)}}

\* prices the operator has typed over the defaults
EditedPrices ==
    [c \in ColorSet |->
        IF c = "Cyan" THEN Float(10, 1)
        ELSE IF c = "Magenta" THEN Float(33175, 2)
        ELSE IF c = "Yellow" THEN Float(0, 0)
        ELSE Float(25, 1)]

\* <<printer, ink_prices>>
PrinterSetups ==
    {<<p, PRINTERS[p].DEFAULT_INK_PRICES>> : p \in PrinterNames}
    \cup {<<"Epson Workforce C5290", EditedPrices>>}

CostPaperInputs == {DEFAULT_PAPER_COST, Float(2807, 3)}

CostMarkupInputs == {0, DEFAULT_MARKUP_PERCENT, 500}

\* print widths in mm: 210, and 8.27 inches
CostWidthInputs == {Float(210, 0), InchesToMm(Float(827, 2))}

CostHeightInputs == {Float(297, 0)}

CostInit ==
    /\ \E setup \in PrinterSetups :
          /\ printer_choice = setup[1]
          /\ ink_prices = setup[2]
          /\ \E w \in CostWidthInputs, h \in CostHeightInputs,
                coverage \in CoverageTables :
                cost_args = Some([print_width      |-> w,
                                  print_height     |-> h,
                                  ink_coverage     |-> coverage,
                                  ink_usage_per_m2 |->
                                      PRINTERS[setup[1]].INK_USAGE_PER_M2])
    /\ paper_cost \in CostPaperInputs
    /\ markup \in {MarkupOf(percent) : percent \in CostMarkupInputs}
    /\ print_width_in = Float(827, 2)
    /\ print_height_in = Float(1169, 2)
    /\ uploaded_file = None
    /\ cmyk_coverage = None
    /\ cost_locals = None
    /\ pricing = None
    /\ screen = <<>>
    /\ runs = 0
    /\ pc = "ready"

PrintCostCall ==
    /\ pc = "ready"
    /\ pc' = "returned"
    /\ LET cost == CallPrintCost(cost_args.val, ink_prices, paper_cost, markup)
       IN  /\ cost_locals' = Some(cost.locals)
           /\ pricing' = Some(cost.result)
    /\ UNCHANGED <<printer_choice, paper_cost, markup, print_width_in,
                   print_height_in, ink_prices, uploaded_file, cmyk_coverage,
                   cost_args, screen, runs>>

CostNext == PrintCostCall

SpecCost == CostInit /\ [][CostNext]_vars

(***************************************************************************)
(* What the properties below read off a state.                             *)
(***************************************************************************)
\* the number an amount string "P<number>" prints
AmountOf(text) == ParseFloat(Tail(text))

\* the place of a colour's values in a pixel <<blue, green, red>>
PixelIndex(c) == IF c = "Cyan" THEN 3 ELSE IF c = "Magenta" THEN 2 ELSE 1

InkColors == {"Cyan", "Magenta", "Yellow"}

\* the pixels of the uploaded image
Pixels == uploaded_file.val.pixels

\* the per-pixel values of a colour over the uploaded image
ValuesOf(c) ==
    IF c = "Black (K)" THEN KArray(Pixels) ELSE InkArray(Pixels, PixelIndex(c))

\* those the coverage of the colour averages: all for K, the positive ones else
AveragedValuesOf(c) ==
    IF c = "Black (K)" THEN ValuesOf(c) ELSE Positive(ValuesOf(c))

\* the percentage a coverage string holds
ShownCoverage(c) == CoverageValue(cmyk_coverage.val[c])

\* an image was decoded and its coverage estimated
Estimated == ~uploaded_file.none /\ ~cmyk_coverage.none

AllPixelsAre(px) == \A n \in 1..Len(Pixels) : Pixels[n] = px

\* every rounding of the last cost calculation is clear of a tie, so that
\* binary floating point rounds as the exact arithmetic of the model does
RoundingsAreClear ==
    ~cost_locals.none =>
        /\ ~NearTie(cost_locals.val.total_ink_cost, 2)
        /\ ~NearTie(cost_locals.val.total_cost, 2)
        /\ ~NearTie(cost_locals.val.final_price, 2)

(***************************************************************************)
(* C1.  A channel among Cyan, Magenta, Yellow with no pixel value above 0  *)
(* has coverage 0% (not nan); for an all-white image all four coverages    *)
(* are 0%.  The code gives nan: this is the claim as stated, and it fails. *)
(***************************************************************************)
C1_NoPositivePixelIsZeroPercent ==
    Estimated =>
        /\ \A c \in InkColors :
              Positive(ValuesOf(c)) = <<>> => ShownCoverage(c) = Zero
        /\ AllPixelsAre(White) => \A c \in ColorSet : ShownCoverage(c) = Zero

(***************************************************************************)
(* C2.  For an all-black image K coverage is 100% and Cyan, Magenta and    *)
(* Yellow are 0% each.  As stated; it fails (the three are nan).           *)
(***************************************************************************)
C2_BlackImage ==
    (Estimated /\ AllPixelsAre(Black)) =>
        /\ ShownCoverage("Black (K)") = Float(100, 0)
        /\ \A c \in InkColors : ShownCoverage(c) = Zero

(***************************************************************************)
(* C3.  For an image of pure cyan (red 0, green 255, blue 255) K is 0%,    *)
(* Cyan 100%, Magenta 0% and Yellow 0%.  As stated; it fails (Magenta and  *)
(* Yellow are nan).                                                        *)
(***************************************************************************)
C3_PureCyanImage ==
    (Estimated /\ AllPixelsAre(PureCyan)) =>
        /\ ShownCoverage("Black (K)") = Zero
        /\ ShownCoverage("Cyan") = Float(100, 0)
        /\ ShownCoverage("Magenta") = Zero
        /\ ShownCoverage("Yellow") = Zero

(***************************************************************************)
(* C4.  After an upload the page shows, below the uploaded image, either   *)
(* the full results (the four coverages, then the four amounts) or the     *)
(* one error message; for a file that cannot be decoded it is the error,   *)
(* calculate_print_cost is not called and no coverage or cost line shows.  *)
(***************************************************************************)
IsFullResults(out) ==
    /\ Len(out) = 10
    /\ out[1] = Subheader("CMYK Ink Coverage")
    /\ \A i \in 1..4 : out[1 + i].kind = "write" /\ out[1 + i].item = Colors[i]
    /\ out[6] = Subheader("Cost Calculation")
    /\ <<out[7].item, out[8].item, out[9].item, out[10].item>>
          = <<"Ink Cost", "Paper Cost", "Total Cost", "Final Price (with Markup)">>
    /\ \A i \in 7..10 : out[i].kind = "write"

IsErrorOnly(out) == out = <<ErrorShown>>

C4_ResultsOrError ==
    ~uploaded_file.none =>
        /\ screen # <<>>
        /\ Head(screen) = ImageShown
        /\ IsFullResults(Tail(screen)) \/ IsErrorOnly(Tail(screen))
        /\ IsFullResults(Tail(screen)) => ~cost_args.none /\ ~pricing.none
        /\ IsErrorOnly(Tail(screen)) => cost_args.none /\ pricing.none
        /\ ~uploaded_file.val.decodable => IsErrorOnly(Tail(screen))

C4_UndecodableFileShown ==
    /\ ~uploaded_file.none
    /\ ~uploaded_file.val.decodable
    /\ screen = <<ImageShown, ErrorShown>>

(***************************************************************************)
(* C9 and C10 compare the program with the per-channel means at full       *)
(* precision.  A mean is the fraction <<p, q>>; to avoid dividing, the     *)
(* costs that follow from the four means are kept multiplied by the        *)
(* product of the four q.                                                  *)
(***************************************************************************)
\* the mean of the averaged values of a colour, as a fraction of 1
ExactMean(c) ==
    LET values == AveragedValuesOf(c)
        sum    == FracSum(values)
    IN  <<sum[1], sum[2] * Len(values)>>

EveryChannelHasValues == \A c \in ColorSet : AveragedValuesOf(c) # <<>>

\* print area x usage x price of a colour, in the last call
AreaRate(c) ==
    FMul(FMul(PrintArea(cost_args.val.print_width, cost_args.val.print_height),
              cost_args.val.ink_usage_per_m2[c]),
         ink_prices[c])

RECURSIVE DenProduct(_, _)
\* the product of the q of the first n colours, but for the colour skipped
DenProduct(n, skipped) ==
    IF n = 0 THEN One
    ELSE IF Colors[n] = skipped THEN DenProduct(n - 1, skipped)
    ELSE FMul(DenProduct(n - 1, skipped), Float(ExactMean(Colors[n])[2], 0))

CommonDen == DenProduct(Len(Colors), "")

RECURSIVE ScaledInkSum(_)
ScaledInkSum(n) ==
    IF n = 0 THEN Zero
    ELSE FAdd(ScaledInkSum(n - 1),
              FMul(FMul(Float(ExactMean(Colors[n])[1], 0),
                        DenProduct(Len(Colors), Colors[n])),
                   AreaRate(Colors[n])))

\* CommonDen x the costs at full precision
ScaledInkCost == ScaledInkSum(Len(Colors))

ScaledTotalCost == FAdd(ScaledInkCost, FMul(CommonDen, paper_cost))

ScaledFinalPrice == FMul(ScaledTotalCost, FAdd(One, markup))

\* r is scaled / CommonDen rounded to 2 decimals: they are 0.005 apart at most
IsRoundingOf(r, scaled) ==
    LET half == FMul(CommonDen, Float(5, 3))
        mine == FMul(CommonDen, r)
    IN  FLeq(mine, FAdd(scaled, half)) /\ FLeq(scaled, FAdd(mine, half))

RECURSIVE RoundedMeanInkSum(_)
RoundedMeanInkSum(n) ==
    IF n = 0 THEN Zero
    ELSE FAdd(RoundedMeanInkSum(n - 1),
              FMul(FDivPow10(MeanPercent(AveragedValuesOf(Colors[n])), 2),
                   AreaRate(Colors[n])))

C10_MeansInRange ==
    Estimated =>
        \A c \in ColorSet :
            LET shown == ShownCoverage(c)
                mean  == ExactMean(c)
                unit  == Float(mean[2], 0)
                mine  == FMul(unit, shown)
                exact == Float(mean[1] * 100, 0)
                half  == FMul(unit, Float(5, 3))
            IN  /\ ~shown.nan
                /\ FLeq(Zero, shown) /\ FLeq(shown, Float(100, 0))
                /\ AveragedValuesOf(c) # <<>> =>
                      FLeq(mine, FAdd(exact, half)) /\ FLeq(exact, FAdd(mine, half))

(***************************************************************************)
(* The lone call of calculate_print_cost (SpecCost).                       *)
(***************************************************************************)
Returned == pc = "returned"

\* the coverage percentages of the call
CallCoverage(c) == CoverageValue(cost_args.val.ink_coverage[c])

NumericCoverage == \A c \in ColorSet : ~CallCoverage(c).nan

(***************************************************************************)
(* C5 as stated.  The reported final price equals the reported total cost  *)
(* multiplied by (1 + markup), exactly.  It fails: both are rounded to 2   *)
(* decimals, each from its unrounded value.                                *)
(***************************************************************************)
C5_FinalIsReportedTotalTimesMarkup ==
    Returned =>
        AmountOf(pricing.val.FinalPrice)
            = FMul(AmountOf(pricing.val.TotalCost), FAdd(One, markup))

(***************************************************************************)
(* C5, amended.  The reported final price is the unrounded total cost      *)
(* multiplied by (1 + markup), rounded to 2 decimals; it is within         *)
(* 0.005 * (1 + markup) + 0.005 of the reported total cost multiplied by   *)
(* (1 + markup), and equal to the reported total cost at markup 0.         *)
(***************************************************************************)
C5_FinalIsRoundedTotalTimesMarkup ==
    Returned =>
        LET factor   == FAdd(One, markup)
            total    == FAdd(cost_locals.val.total_ink_cost, paper_cost)
            reported == FMul(AmountOf(pricing.val.TotalCost), factor)
            final    == AmountOf(pricing.val.FinalPrice)
            slack    == FAdd(FMul(Float(5, 3), factor), Float(5, 3))
        IN  /\ pricing.val.TotalCost = RoundedAmountStr(total)
            /\ pricing.val.FinalPrice = RoundedAmountStr(FMul(total, factor))
            /\ markup = Zero => pricing.val.FinalPrice = pricing.val.TotalCost
            /\ NumericCoverage =>
                  /\ FLeq(final, FAdd(reported, slack))
                  /\ FLeq(reported, FAdd(final, slack))

\* a call returned whose final price is not its reported total times markup
C5_RoundedApart ==
    /\ Returned
    /\ NumericCoverage
    /\ markup = MarkupOf(DEFAULT_MARKUP_PERCENT)
    /\ AmountOf(pricing.val.FinalPrice)
          # FMul(AmountOf(pricing.val.TotalCost), FAdd(One, markup))

(***************************************************************************)
(* C6.  With numeric coverages, the same call with the coverage of one     *)
(* channel raised (all else equal) has a total ink cost, a total cost and  *)
(* a final price, computed and reported, not below those of this call.     *)
(***************************************************************************)
Raised(c, level) ==
    [cost_args.val EXCEPT !.ink_coverage =
        [cost_args.val.ink_coverage EXCEPT ![c] = PercentStr(level)]]

NotBelow(cost, other) ==
    /\ FLeq(cost.locals.total_ink_cost, other.locals.total_ink_cost)
    /\ FLeq(cost.locals.total_cost, other.locals.total_cost)
    /\ FLeq(cost.locals.final_price, other.locals.final_price)
    /\ FLeq(AmountOf(cost.result.InkCost), AmountOf(other.result.InkCost))
    /\ FLeq(AmountOf(cost.result.TotalCost), AmountOf(other.result.TotalCost))
    /\ FLeq(AmountOf(cost.result.FinalPrice), AmountOf(other.result.FinalPrice))

C6_CostMonotone ==
    (Returned /\ NumericCoverage) =>
        \A c \in ColorSet :
            \A level \in CoverageLevels(c) :
                (FLeq(CallCoverage(c), level) /\ level # CallCoverage(c)) =>
                    NotBelow([locals |-> cost_locals.val, result |-> pricing.val],
                             CallPrintCost(Raised(c, level), ink_prices,
                                           paper_cost, markup))

\* a call returned that has a channel below its highest level, at a price
C6_CoverageCanRise ==
    /\ Returned
    /\ NumericCoverage
    /\ CallCoverage("Cyan") = Float(10, 0)
    /\ FLeq(One, ink_prices["Cyan"])
    /\ Float(5833, 2) \in CoverageLevels("Cyan")

(***************************************************************************)
(* C7 as stated.  With numeric coverages all four reported amounts are     *)
(* non-negative and have 2 decimals at most, for every paper cost.  It     *)
(* fails: the paper cost is reported as entered.                           *)
(***************************************************************************)
C7_AmountsHaveTwoDecimals ==
    (Returned /\ NumericCoverage) =>
        \A amount \in {AmountOf(pricing.val.InkCost), AmountOf(pricing.val.PaperCost),
                       AmountOf(pricing.val.TotalCost),
                       AmountOf(pricing.val.FinalPrice)} :
            FLeq(Zero, amount) /\ HasDecimals(amount, 2)

(***************************************************************************)
(* C8.  The call computes the print area as (width/1000) * (height/1000),  *)
(* the total ink cost as the sum over the four channels of                 *)
(* (coverage/100) * area * usage * price, the total cost as that plus the  *)
(* paper cost and the final price as the total cost * (1 + markup), and    *)
(* reports the three rounded to 2 decimals; at 210 x 297 mm, paper 2.8,    *)
(* markup 0.3, usage 55.29, price 1.0 and coverage 10% on all channels     *)
(* they are 1.38, 4.18 and 5.43.                                           *)
(***************************************************************************)
FormulaTerm(c, area) ==
    FMul(FMul(FMul(FDivPow10(CallCoverage(c), 2), area),
              cost_args.val.ink_usage_per_m2[c]),
         ink_prices[c])

IsWorkedExample ==
    /\ cost_args.val.print_width = Float(210, 0)
    /\ cost_args.val.print_height = Float(297, 0)
    /\ paper_cost = Float(28, 1)
    /\ markup = Float(3, 1)
    /\ \A c \in ColorSet :
          /\ cost_args.val.ink_usage_per_m2[c] = Float(5529, 2)
          /\ ink_prices[c] = One
          /\ CallCoverage(c) = Float(10, 0)

C8_CostFormula ==
    Returned =>
        LET area  == FMul(FDivPow10(cost_args.val.print_width, 3),
                          FDivPow10(cost_args.val.print_height, 3))
            ink   == FAdd(FAdd(FAdd(FormulaTerm("Cyan", area),
                                    FormulaTerm("Magenta", area)),
                               FormulaTerm("Yellow", area)),
                          FormulaTerm("Black (K)", area))
            total == FAdd(ink, paper_cost)
            final == FMul(total, FAdd(One, markup))
        IN  /\ cost_locals.val = [total_ink_cost |-> ink, total_cost |-> total,
                                  final_price |-> final]
            /\ AmountOf(pricing.val.InkCost) = FRound(ink, 2)
            /\ AmountOf(pricing.val.TotalCost) = FRound(total, 2)
            /\ AmountOf(pricing.val.FinalPrice) = FRound(final, 2)
            /\ IsWorkedExample =>
                  /\ AmountOf(pricing.val.InkCost) = Float(138, 2)
                  /\ AmountOf(pricing.val.TotalCost) = Float(418, 2)
                  /\ AmountOf(pricing.val.FinalPrice) = Float(543, 2)

\* the worked example has returned
C8_WorkedExampleReturned ==
    /\ Returned
    /\ IsWorkedExample
    /\ pricing.val.InkCost = <<"P", "1", ".", "3", "8">>

====
